---- MODULE Spec2Model ----
(***************************************************************************)
(* Model of apps/llm_cli.cpp (the last of the three versions of the file   *)
(* concatenated in src/apps/llm_cli.cpp, lines 879-1529): the stop         *)
(* sequence detector, the stop-point trimmer, the one-sentence normalizer  *)
(* and the generation loop of main with its post-processing.               *)
(*                                                                         *)
(* A std::string is a sequence of byte values (0..255).  Offsets are       *)
(* 0-based as in the code; SubSeq is 1-based.                              *)
(***************************************************************************)
EXTENDS Integers, Sequences, FiniteSets, TLC

\* ------------------------------------------------------------------ bytes

\* '\t', '\n', '\r', ' ' as the code's character literals.
TAB == 9
LF == 10
CR == 13
SP == 32

\* std::string::npos, the largest size_t; here the largest integer of the
\* checker, which is likewise above every offset and length of the model.
npos == 2147483647

\* u8"。", u8"！", u8"？" as their UTF-8 bytes.
ZH_PERIOD == <<227, 128, 130>>
ZH_EXCLAM == <<239, 188, 129>>
ZH_QUESTION == <<239, 188, 159>>

\* The static vector `ends` of find_first_sentence_end_zh.
ends == <<ZH_PERIOD, ZH_EXCLAM, ZH_QUESTION>>

\* std::min on size_t.
std_min(a, b) == IF b < a THEN b ELSE a

\* ------------------------------------------------------- std::string ops

\* s.compare(pos, len, t) == 0 : the len bytes of s from offset pos equal t.
compare_eq(s, pos, len, t) == SubSeq(s, pos + 1, pos + len) = t

\* s.find(t) scanning from offset p upward: the first offset >= p at which t
\* occurs in s, npos when there is none.
RECURSIVE find_from(_, _, _)
find_from(s, t, p) ==
    IF p + Len(t) > Len(s) THEN npos
    ELSE IF compare_eq(s, p, Len(t), t) THEN p
    ELSE find_from(s, t, p + 1)

\* s.find(t)
find(s, t) == find_from(s, t, 0)

\* s.resize(n) for n <= s.size(): the first n bytes.
resize(s, n) == SubSeq(s, 1, n)

\* ------------------------------------------------- stop sequence detector

\* Mutant of stop_hits: the t.empty() guard is missing.
stop_hits_no_empty_guard(s, t) ==
    Len(s) >= Len(t) /\ compare_eq(s, Len(s) - Len(t), Len(t), t)

\* One iteration of the loop of ends_with_any: does literal t make it return
\* true?  (empty literals are skipped)
stop_hits(s, t) ==
    /\ t # <<>>
    /\ Len(s) >= Len(t)
    /\ compare_eq(s, Len(s) - Len(t), Len(t), t)

\* The loop of ends_with_any from literal k (1-based) on.
RECURSIVE ends_with_any_from(_, _, _)
ends_with_any_from(s, stops_, k) ==
    IF k > Len(stops_) THEN FALSE
    ELSE IF stop_hits(s, stops_[k]) THEN TRUE
    ELSE ends_with_any_from(s, stops_, k + 1)

ends_with_any(s, stops_) == ends_with_any_from(s, stops_, 1)

\* ------------------------------------------------------ stop-point trimmer

\* The loop of trim_at_stop_first_occurrence from literal k on, with the
\* running value of `cut`.
RECURSIVE trim_cut_from(_, _, _, _)
trim_cut_from(s, stops_, k, cut) ==
    IF k > Len(stops_) THEN cut
    ELSE IF stops_[k] = <<>> THEN trim_cut_from(s, stops_, k + 1, cut)
    ELSE LET pos == find(s, stops_[k])
         IN  IF pos # npos
             THEN trim_cut_from(s, stops_, k + 1, std_min(cut, pos))
             ELSE trim_cut_from(s, stops_, k + 1, cut)

\* Mutant of trim_cut: the loop stops at the first literal (in list order)
\* that occurs in s instead of taking the minimum over all of them.
RECURSIVE trim_cut_first_listed_from(_, _, _)
trim_cut_first_listed_from(s, stops_, k) ==
    IF k > Len(stops_) THEN npos
    ELSE IF stops_[k] # <<>> /\ find(s, stops_[k]) # npos THEN find(s, stops_[k])
    ELSE trim_cut_first_listed_from(s, stops_, k + 1)

trim_cut_first_listed(s, stops_) == trim_cut_first_listed_from(s, stops_, 1)

\* Mutant of trim_cut: the cut is placed after the matched literal's first
\* byte (an off-by-one in the offset).
trim_cut_off_by_one(s, stops_) ==
    LET c == trim_cut_from(s, stops_, 1, npos)
    IN  IF c = npos THEN npos ELSE c + 1

\* The value of `cut` after the loop.
trim_cut(s, stops_) == trim_cut_from(s, stops_, 1, npos)

trim_at_stop_first_occurrence(s, stops_) ==
    LET cut == trim_cut(s, stops_)
    IN  IF cut # npos THEN resize(s, cut) ELSE s

\* --------------------------------------------- "one sentence" postprocess

\* Mutant of sentence_end_from: the offset of the terminator itself is taken
\* instead of the offset just past it (endpos = p).
RECURSIVE sentence_end_drops_mark_from(_, _, _)
sentence_end_drops_mark_from(s, k, best) ==
    IF k > Len(ends) THEN best
    ELSE LET p == find(s, ends[k])
         IN  IF p # npos
             THEN sentence_end_drops_mark_from(s, k + 1,
                      IF best = npos THEN p ELSE std_min(best, p))
             ELSE sentence_end_drops_mark_from(s, k + 1, best)

\* The loop over `ends` from terminator k on, with the running `best`:
\* for each terminator found, the offset just past its first occurrence.
RECURSIVE sentence_end_from(_, _, _)
sentence_end_from(s, k, best) ==
    IF k > Len(ends) THEN best
    ELSE LET p == find(s, ends[k])
         IN  IF p # npos
             THEN LET endpos == p + Len(ends[k])
                  IN  sentence_end_from(s, k + 1,
                          IF best = npos THEN endpos ELSE std_min(best, endpos))
             ELSE sentence_end_from(s, k + 1, best)

find_first_sentence_end_zh(s) ==
    LET best == sentence_end_from(s, 1, npos)
        nl == find(s, <<LF>>)
    IN  IF nl # npos
        THEN (IF best = npos THEN nl ELSE std_min(best, nl))
        ELSE best

\* s.erase(std::remove(s.begin(), s.end(), '\r'), s.end())
remove_cr(s) == SelectSeq(s, LAMBDA c : c # CR)

\* Mutant of cut_first_sentence: a text without a sentence end is closed
\* with a terminator.
cut_closes_open_sentence(s) ==
    LET cut == find_first_sentence_end_zh(s)
    IN  IF cut # npos THEN resize(s, cut) ELSE s \o ZH_PERIOD

\* cut = find_first_sentence_end_zh(s); if (cut != npos) s.resize(cut)
cut_first_sentence(s) ==
    LET cut == find_first_sentence_end_zh(s)
    IN  IF cut # npos THEN resize(s, cut) ELSE s

\* The lambda is_ws.
is_ws(c) == c = SP \/ c = TAB \/ c = LF

\* while (!s.empty() && is_ws(s.front())) s.erase(s.begin())
RECURSIVE strip_front(_)
strip_front(s) ==
    IF s # <<>> /\ is_ws(Head(s)) THEN strip_front(Tail(s)) ELSE s

\* while (!s.empty() && is_ws(s.back())) s.pop_back()
RECURSIVE strip_back(_)
strip_back(s) ==
    IF s # <<>> /\ is_ws(s[Len(s)]) THEN strip_back(SubSeq(s, 1, Len(s) - 1)) ELSE s

\* Mutant of tabs_to_space: the replacement loop is missing.
tabs_to_space_skipped(s) == s

\* for (char &c : s) if (c == '\n' || c == '\t') c = ' '
tabs_to_space(s) ==
    [k \in 1..Len(s) |-> IF s[k] = LF \/ s[k] = TAB THEN SP ELSE s[k]]

\* The collapsing loop from byte k on, with `prev_space` and the bytes
\* pushed to `out` so far.
RECURSIVE collapse_from(_, _, _, _)
collapse_from(s, k, prev_space, acc) ==
    IF k > Len(s) THEN acc
    ELSE LET c == s[k]
             sp == (c = SP)
         IN  collapse_from(s, k + 1, sp,
                 IF sp THEN (IF ~prev_space THEN Append(acc, c) ELSE acc)
                 ELSE Append(acc, c))

\* Mutant of collapse_spaces: the else branch is missing, so a byte is
\* pushed only when the previous byte was not a space.
RECURSIVE collapse_drop_from(_, _, _, _)
collapse_drop_from(s, k, prev_space, acc) ==
    IF k > Len(s) THEN acc
    ELSE collapse_drop_from(s, k + 1, s[k] = SP,
             IF ~prev_space THEN Append(acc, s[k]) ELSE acc)

collapse_drops_after_space(s) == collapse_drop_from(s, 1, FALSE, <<>>)

\* Collapse every run of spaces into one space.
collapse_spaces(s) == collapse_from(s, 1, FALSE, <<>>)

normalize_one_sentence(s) ==
    collapse_spaces(tabs_to_space(strip_back(strip_front(
        cut_first_sentence(remove_cr(s))))))

\* ================================================================== state

VARIABLES
    pc,          \* position in main, or in the caller of a helper
    stops,       \* std::vector<std::string> stops
    n_predict,   \* int n_predict (--n)
    i,           \* loop counter of the generation loop
    n_cur,       \* int n_cur: position of the next token fed back
    out,         \* std::string out: the generation buffer
    halt,        \* which exit of the generation loop was taken ("none": none yet)
    appended,    \* number of out.append calls made
    out_at_halt, \* out right after the last append, when the loop was left
    calls,       \* the post-processing calls made so far, in order
    repaired,    \* whether the anchor block's body ran
    printed,     \* the strings inserted into std::cout after the banner, in order
    exit,        \* how main ended ("running" while it has not)
    acquired,    \* the engine objects created so far, in order of creation
    freed,       \* the engine objects released so far, in order of release
    n_batch,     \* int n_batch (--batch): the capacity llama_batch_init is given
    n_prompt,    \* int n_prompt: the prompt's token count, tokens.size()
    n_tokens,    \* batch.n_tokens
    touched,     \* the indices at which the arrays of the batch were accessed so far
    fed,         \* the <<token, position>> pairs handed to llama_decode in the loop
    s_in,        \* helper callers: the argument as passed in
    s,           \* helper callers: the std::string &s worked on in place
    s_mid,       \* helper callers: s after the first of two calls
    hit          \* helper callers: the value returned by ends_with_any

vars == <<pc, stops, n_predict, i, n_cur, out, halt, appended, out_at_halt,
          calls, repaired, printed, exit, acquired, freed,
          n_batch, n_prompt, n_tokens, touched, fed, s_in, s, s_mid, hit>>

main_vars == <<n_predict, i, n_cur, out, halt, appended, out_at_halt,
               calls, repaired, printed, exit, acquired, freed,
               n_batch, n_prompt, n_tokens, touched, fed>>

engine_vars == <<acquired, freed>>

helper_vars == <<s_in, s, s_mid, hit>>

\* ------------------------------------------------------------- the bounds

\* Longest text and longest stop literal handed to the matcher and trimmer,
\* and the largest number of literals in a stop list.
MaxTextLen == 4
MaxLitLen == 2
MaxStops == 2

\* Longest text handed to the normalizer.
MaxNormLen == 4

\* Largest --n, the most negative --n (as its absolute value), and the
\* largest prompt token count.
MaxPredict == 3
MaxNegPredict == 1
MaxPrompt == 2

\* Largest --batch.
MaxBatch == 2

\* All byte strings over alphabet A of length at most n.
Texts(A, n) == UNION {[1..k -> A] : k \in 0..n}

\* All lists of at most n elements of S.
Lists(S, n) == UNION {[1..k -> S] : k \in 0..n}

\* Bytes of the texts and literals tried on the matcher and trimmer: 'a', 'X'.
TrimAlphabet == {97, 88}

\* The spec's example: literals {"X","YZ"}, text "aaXbbYZcc"; and a case
\* with an empty literal among multi-byte ones.
TrimExamples ==
    { << <<97, 97, 88, 98, 98, 89, 90, 99, 99>>, << <<88>>, <<89, 90>> >> >>,
      << <<97, 97, 88, 98, 98, 89, 90, 99, 99>>, << <<89, 90>>, <<88>> >> >>,
      << <<97, 227, 128, 130, 98>>, << <<>>, ZH_PERIOD, <<10>> >> >> }

TrimInputs ==
    (Texts(TrimAlphabet, MaxTextLen)
        \X Lists(Texts(TrimAlphabet, MaxLitLen), MaxStops))
    \cup TrimExamples

\* Bytes of the texts tried on the normalizer: the four whitespace bytes,
\* 'a', and the three bytes of u8"。".
NormAlphabet == {SP, TAB, LF, CR, 97, 227, 128, 130}

\* u8"你好。多余内容", and texts with the other two terminators.
NormExamples ==
    { <<228, 189, 160, 229, 165, 189, 227, 128, 130,
        229, 164, 154, 228, 189, 153, 229, 134, 133, 229, 174, 185>>,
      <<97, 239, 188, 129, 97, 227, 128, 130>>,
      <<SP, 97, CR, TAB, SP, 97, 239, 188, 159, 97, LF>> }

NormInputs == Texts(NormAlphabet, MaxNormLen) \cup NormExamples

\* ------------------------------------------------ callers of the helpers

\* The values the variables of main hold while a helper is exercised alone.
MainIdle ==
    /\ n_predict = 0 /\ i = 0 /\ n_cur = 0 /\ out = <<>> /\ halt = "none"
    /\ appended = 0 /\ out_at_halt = <<>> /\ calls = <<>> /\ repaired = FALSE
    /\ printed = <<>> /\ exit = "running"
    /\ acquired = <<>> /\ freed = <<>>
    /\ n_batch = 0 /\ n_prompt = 0 /\ n_tokens = 0 /\ touched = {} /\ fed = <<>>

\* ends_with_any(s, stops) on every text and stop list of the bounds.
InitMatch ==
    /\ pc = "call_ends_with_any"
    /\ \E inp \in TrimInputs : s_in = inp[1] /\ stops = inp[2]
    /\ s = s_in /\ s_mid = <<>> /\ hit = FALSE
    /\ MainIdle

CallEndsWithAny ==
    /\ pc = "call_ends_with_any"
    /\ hit' = ends_with_any(s, stops)
    /\ pc' = "matched"
    /\ UNCHANGED <<stops, s_in, s, s_mid>>
    /\ UNCHANGED main_vars

NextMatch == CallEndsWithAny

SpecMatch == InitMatch /\ [][NextMatch]_vars

\* trim_at_stop_first_occurrence(s, stops), then once more on its result.
InitTrim ==
    /\ pc = "call_trim"
    /\ \E inp \in TrimInputs : s_in = inp[1] /\ stops = inp[2]
    /\ s = s_in /\ s_mid = <<>> /\ hit = FALSE
    /\ MainIdle

CallTrim ==
    /\ pc = "call_trim"
    /\ s' = trim_at_stop_first_occurrence(s, stops)
    /\ s_mid' = s'
    /\ pc' = "trimmed"
    /\ UNCHANGED <<stops, s_in, hit>>
    /\ UNCHANGED main_vars

CallTrimAgain ==
    /\ pc = "trimmed"
    /\ s' = trim_at_stop_first_occurrence(s, stops)
    /\ pc' = "trimmed_twice"
    /\ UNCHANGED <<stops, s_in, s_mid, hit>>
    /\ UNCHANGED main_vars

NextTrim == CallTrim \/ CallTrimAgain

SpecTrim == InitTrim /\ [][NextTrim]_vars

\* normalize_one_sentence(s) on every text of the bounds.
InitNorm ==
    /\ pc = "call_normalize"
    /\ s_in \in NormInputs
    /\ s = s_in /\ s_mid = <<>> /\ hit = FALSE /\ stops = <<>>
    /\ MainIdle

CallNormalize ==
    /\ pc = "call_normalize"
    /\ s' = normalize_one_sentence(s)
    /\ pc' = "normalized"
    /\ UNCHANGED <<stops, s_in, s_mid, hit>>
    /\ UNCHANGED main_vars

NextNorm == CallNormalize

SpecNorm == InitNorm /\ [][NextNorm]_vars

\* =================================================================== main

\* The stop list main builds before parsing its arguments; no option
\* changes it.
BuiltinStops ==
    << <<LF, 72, 117, 109, 97, 110, 58>>,                      \* "\nHuman:"
       <<LF, 85, 115, 101, 114, 58>>,                          \* "\nUser:"
       <<LF, 97, 115, 115, 105, 115, 116, 97, 110, 116, 58>>,  \* "\nassistant:"
       <<LF, 65, 115, 115, 105, 115, 116, 97, 110, 116, 58>>,  \* "\nAssistant:"
       <<60, 124, 101, 110, 100, 111, 102, 116, 101, 120, 116, 124, 62>>, \* "<|endoftext|>"
       <<60, 47, 115, 62>>,                                    \* "</s>"
       <<60, 124, 105, 109, 95, 101, 110, 100, 124, 62>>,      \* "<|im_end|>"
       <<60, 124, 101, 111, 116, 95, 105, 100, 124, 62>>,      \* "<|eot_id|>"
       <<LF, LF>>,                                             \* "\n\n"
       ZH_PERIOD, ZH_EXCLAM, ZH_QUESTION,
       <<LF>> >>

\* const std::string key = u8"LR(0)"
key == <<76, 82, 40, 48, 41>>

\* The engine's vocabulary as far as main sees it: for each token id the
\* bytes llama_token_to_piece writes (nb is their number).  Token 1 is the
\* end-of-sequence token, token 2 a token with an empty piece (nb = 0).
Vocab ==
    << <<>>,                    \* 1: end of sequence
       <<>>,                    \* 2: nb <= 0
       <<97>>,                  \* 3: "a"
       <<SP>>,                  \* 4: " "
       <<TAB>>,                 \* 5: "\t"
       <<CR>>,                  \* 6: "\r"
       <<LF>>,                  \* 7: "\n"
       ZH_PERIOD,               \* 8: "。"
       key,                     \* 9: "LR(0)"
       <<60, 47>>,              \* 10: "</"
       <<115, 62>>,             \* 11: "s>"
       <<227, 128, 130, 97>>,   \* 12: "。a"
       <<227>>,                 \* 13: the first byte of "。"
       <<128, 130>> >>          \* 14: the other two bytes of "。"

\* The ids llama_sampler_sample may return.
Tokens == 1..Len(Vocab)

\* llama_token_eos(vocab)
llama_token_eos == 1

\* llama_token_to_piece(vocab, id, buf, sizeof(buf), 0, true): the bytes
\* written to buf; nb is their number.
llama_token_to_piece(id) == Vocab[id]

\* The return values of llama_decode that main tells apart: 0 and non-zero.
DecodeResults == {0, 1}

\* out.reserve((size_t)n_predict * 6) throws std::length_error when the
\* request exceeds max_size().  A negative int n converts to 2^64 - |n|, and
\* times 6 (mod 2^64) that is 2^64 - 6|n| >= 2^64 - 6 * 2^31, above every
\* max_size() (at most 2^63); a non-negative n gives at most 6 * (2^31 - 1).
reserve_throws(n) == n < 0

\* Mutant of loop_continues: the bound is off by one.
loop_continues_off_by_one(i_, n) == i_ <= n

\* The condition of the generation loop: i < n_predict.
loop_continues(i_, n) == i_ < n

\* out.substr(p)
substr(x, p) == SubSeq(x, p + 1, Len(x))

\* The values the variables of the helpers' callers hold while main runs.
HelperIdle == s_in = <<>> /\ s = <<>> /\ s_mid = <<>> /\ hit = FALSE

\* main when the arguments have been parsed, before llama_backend_init.
Init ==
    /\ pc = "backend_init"
    /\ stops = BuiltinStops
    /\ n_predict \in (0 - MaxNegPredict)..MaxPredict
    /\ n_batch \in 0..MaxBatch
    /\ n_prompt = 0
    /\ n_tokens = 0
    /\ touched = {}
    /\ fed = <<>>
    /\ n_cur = 0
    /\ i = 0
    /\ out = <<>>
    /\ halt = "none"
    /\ appended = 0
    /\ out_at_halt = <<>>
    /\ calls = <<>>
    /\ repaired = FALSE
    /\ printed = <<>>
    /\ exit = "running"
    /\ acquired = <<>>
    /\ freed = <<>>
    /\ HelperIdle

\* The variables of main that the set-up steps before the loop leave alone.
setup_unchanged ==
    UNCHANGED <<stops, n_predict, i, n_cur, out, halt, appended, out_at_halt,
                calls, repaired, printed>>

\* llama_backend_init().
BackendInit ==
    /\ pc = "backend_init"
    /\ acquired' = Append(acquired, "backend")
    /\ pc' = "load_model"
    /\ UNCHANGED <<exit, freed>>
    /\ setup_unchanged
    /\ UNCHANGED <<n_batch, n_prompt, n_tokens, touched, fed>>
    /\ UNCHANGED helper_vars

\* llama_load_model_from_file returns a model.
LoadModelOk ==
    /\ pc = "load_model"
    /\ acquired' = Append(acquired, "model")
    /\ pc' = "new_context"
    /\ UNCHANGED <<exit, freed>>
    /\ setup_unchanged
    /\ UNCHANGED <<n_batch, n_prompt, n_tokens, touched, fed>>
    /\ UNCHANGED helper_vars

\* llama_load_model_from_file returns null: llama_backend_free(); return 3.
LoadModelFails ==
    /\ pc = "load_model"
    /\ freed' = freed \o <<"backend">>
    /\ exit' = "return 3"
    /\ pc' = "done"
    /\ UNCHANGED acquired
    /\ setup_unchanged
    /\ UNCHANGED <<n_batch, n_prompt, n_tokens, touched, fed>>
    /\ UNCHANGED helper_vars

\* llama_new_context_with_model returns a context.
NewContextOk ==
    /\ pc = "new_context"
    /\ acquired' = Append(acquired, "ctx")
    /\ pc' = "apply_template"
    /\ UNCHANGED <<exit, freed>>
    /\ setup_unchanged
    /\ UNCHANGED <<n_batch, n_prompt, n_tokens, touched, fed>>
    /\ UNCHANGED helper_vars

\* llama_new_context_with_model returns null: llama_free_model(model);
\* llama_backend_free(); return 3.
NewContextFails ==
    /\ pc = "new_context"
    /\ freed' = freed \o <<"model", "backend">>
    /\ exit' = "return 3"
    /\ pc' = "done"
    /\ UNCHANGED acquired
    /\ setup_unchanged
    /\ UNCHANGED <<n_batch, n_prompt, n_tokens, touched, fed>>
    /\ UNCHANGED helper_vars

\* llama_chat_apply_template returns pn >= 0.
ApplyTemplateOk ==
    /\ pc = "apply_template"
    /\ pc' = "tokenize"
    /\ UNCHANGED <<exit, acquired, freed>>
    /\ setup_unchanged
    /\ UNCHANGED <<n_batch, n_prompt, n_tokens, touched, fed>>
    /\ UNCHANGED helper_vars

\* pn < 0: llama_free(ctx); llama_free_model(model); llama_backend_free();
\* return 6.
ApplyTemplateFails ==
    /\ pc = "apply_template"
    /\ freed' = freed \o <<"ctx", "model", "backend">>
    /\ exit' = "return 6"
    /\ pc' = "done"
    /\ UNCHANGED acquired
    /\ setup_unchanged
    /\ UNCHANGED <<n_batch, n_prompt, n_tokens, touched, fed>>
    /\ UNCHANGED helper_vars

\* llama_tokenize returns n_prompt >= 0; tokens.resize(n_prompt).
TokenizeOk ==
    /\ pc = "tokenize"
    /\ n_prompt' \in 0..MaxPrompt
    /\ pc' = "batch_init"
    /\ UNCHANGED <<exit, acquired, freed>>
    /\ setup_unchanged
    /\ UNCHANGED <<n_batch, n_tokens, touched, fed>>
    /\ UNCHANGED helper_vars

\* n_prompt < 0: llama_free(ctx); llama_free_model(model);
\* llama_backend_free(); return 4.
TokenizeFails ==
    /\ pc = "tokenize"
    /\ freed' = freed \o <<"ctx", "model", "backend">>
    /\ exit' = "return 4"
    /\ pc' = "done"
    /\ UNCHANGED acquired
    /\ setup_unchanged
    /\ UNCHANGED <<n_batch, n_prompt, n_tokens, touched, fed>>
    /\ UNCHANGED helper_vars

\* llama_batch batch = llama_batch_init(n_batch, 0, 1).
BatchInit ==
    /\ pc = "batch_init"
    /\ acquired' = Append(acquired, "batch")
    /\ pc' = "prompt_fill"
    /\ UNCHANGED <<exit, freed>>
    /\ setup_unchanged
    /\ UNCHANGED <<n_batch, n_prompt, n_tokens, touched, fed>>
    /\ UNCHANGED helper_vars

\* The indices of the batch arrays that the prompt fill accesses for n
\* prompt tokens: n_tokens = 0 .. n - 1 inside the loop, and n_tokens - 1 for
\* batch.logits[batch.n_tokens - 1] = true after it.
prompt_fill_indices(n) == (0..(n - 1)) \cup {n - 1}

\* Whether index k lies inside an array of the batch, which
\* llama_batch_init(n_batch, 0, 1) allocates with n_batch elements.
in_batch(k) == 0 <= k /\ k < n_batch

\* batch.n_tokens = 0; the loop over tokens; batch.logits[n_tokens - 1] = true:
\* every access is inside the batch.
PromptFillOk ==
    /\ pc = "prompt_fill"
    /\ \A k \in prompt_fill_indices(n_prompt) : in_batch(k)
    /\ touched' = prompt_fill_indices(n_prompt)
    /\ n_tokens' = n_prompt
    /\ pc' = "prompt_decode"
    /\ UNCHANGED <<exit, acquired, freed>>
    /\ setup_unchanged
    /\ UNCHANGED <<n_batch, n_prompt, fed>>
    /\ UNCHANGED helper_vars

\* Whether an access outside the batch has been made: the heap around the
\* arrays may be damaged, which an allocator can detect when they are freed.
heap_damaged == \E k \in touched : ~in_batch(k)

\* The first index outside the batch that the prompt fill accesses for n
\* prompt tokens: n_batch inside the loop when there are more tokens than
\* that, else n - 1 = -1 for batch.logits[batch.n_tokens - 1] with no token.
first_stray_index(n) == IF n > n_batch THEN n_batch ELSE n - 1

\* The same statements with an access outside the batch, which is undefined
\* behaviour; in this outcome the process survives the stray accesses and
\* main goes on, with the heap possibly damaged.
PromptFillOverrunGoesOn ==
    /\ pc = "prompt_fill"
    /\ \E k \in prompt_fill_indices(n_prompt) : ~in_batch(k)
    /\ touched' = prompt_fill_indices(n_prompt)
    /\ n_tokens' = n_prompt
    /\ pc' = "prompt_decode"
    /\ UNCHANGED <<exit, acquired, freed>>
    /\ setup_unchanged
    /\ UNCHANGED <<n_batch, n_prompt, fed>>
    /\ UNCHANGED helper_vars

\* The same undefined behaviour; in this outcome the process is killed at
\* the first stray access: inside the loop before batch.n_tokens++ of that
\* iteration, or at batch.logits[-1] after a loop of no iterations.
PromptFillOverrunCrashes ==
    /\ pc = "prompt_fill"
    /\ \E k \in prompt_fill_indices(n_prompt) : ~in_batch(k)
    /\ touched' = IF first_stray_index(n_prompt) >= 0
                  THEN 0..first_stray_index(n_prompt)
                  ELSE {first_stray_index(n_prompt)}
    /\ n_tokens' = IF first_stray_index(n_prompt) >= 0
                   THEN first_stray_index(n_prompt)
                   ELSE 0
    /\ exit' = "crash"
    /\ pc' = "terminated"
    /\ UNCHANGED <<acquired, freed>>
    /\ setup_unchanged
    /\ UNCHANGED <<n_batch, n_prompt, fed>>
    /\ UNCHANGED helper_vars

\* llama_decode(ctx, batch) on the prompt returns 0.
PromptDecodeOk ==
    /\ pc = "prompt_decode"
    /\ pc' = "sampler"
    /\ UNCHANGED <<exit, acquired, freed>>
    /\ setup_unchanged
    /\ UNCHANGED <<n_batch, n_prompt, n_tokens, touched, fed>>
    /\ UNCHANGED helper_vars

\* llama_decode(prompt) fails: llama_batch_free(batch); llama_free(ctx);
\* llama_free_model(model); llama_backend_free(); return 5.
PromptDecodeFails ==
    /\ pc = "prompt_decode"
    /\ freed' = freed \o <<"batch", "ctx", "model", "backend">>
    /\ exit' = "return 5"
    /\ pc' = "done"
    /\ UNCHANGED acquired
    /\ setup_unchanged
    /\ UNCHANGED <<n_batch, n_prompt, n_tokens, touched, fed>>
    /\ UNCHANGED helper_vars

\* llama_decode(prompt) fails after a stray access of the prompt fill, and
\* the process is killed inside llama_batch_free(batch).
PromptDecodeFailsCrashes ==
    /\ pc = "prompt_decode"
    /\ heap_damaged
    /\ exit' = "crash"
    /\ pc' = "terminated"
    /\ UNCHANGED <<acquired, freed>>
    /\ setup_unchanged
    /\ UNCHANGED <<n_batch, n_prompt, n_tokens, touched, fed>>
    /\ UNCHANGED helper_vars

\* llama_sampler_chain_init and the four llama_sampler_chain_add calls.
SamplerInit ==
    /\ pc = "sampler"
    /\ acquired' = Append(acquired, "smpl")
    /\ pc' = "reserve"
    /\ UNCHANGED <<exit, freed>>
    /\ setup_unchanged
    /\ UNCHANGED <<n_batch, n_prompt, n_tokens, touched, fed>>
    /\ UNCHANGED helper_vars

\* int n_cur = (int)tokens.size(); std::string out;
\* out.reserve((size_t)n_predict * 6); and the request fits.
ReserveOk ==
    /\ pc = "reserve"
    /\ ~reserve_throws(n_predict)
    /\ n_cur' = n_prompt
    /\ pc' = "for"
    /\ UNCHANGED <<stops, n_predict, i, out, halt, appended, out_at_halt,
                   calls, repaired, printed, exit>>
    /\ UNCHANGED engine_vars
    /\ UNCHANGED <<n_batch, n_prompt, n_tokens, touched, fed>>
    /\ UNCHANGED helper_vars

\* out.reserve throws std::length_error; nothing catches it, so
\* std::terminate ends the process.
ReserveThrows ==
    /\ pc = "reserve"
    /\ reserve_throws(n_predict)
    /\ n_cur' = n_prompt
    /\ pc' = "terminated"
    /\ exit' = "terminate"
    /\ UNCHANGED <<stops, n_predict, i, out, halt, appended, out_at_halt,
                   calls, repaired, printed>>
    /\ UNCHANGED engine_vars
    /\ UNCHANGED <<n_batch, n_prompt, n_tokens, touched, fed>>
    /\ UNCHANGED helper_vars

\* The loop condition i < n_predict is false: the loop ends.
LoopBudget ==
    /\ pc = "for"
    /\ ~loop_continues(i, n_predict)
    /\ halt' = "budget"
    /\ out_at_halt' = out
    /\ pc' = "trim"
    /\ UNCHANGED <<stops, n_predict, i, n_cur, out, appended, calls, repaired,
                   printed, exit>>
    /\ UNCHANGED engine_vars
    /\ UNCHANGED <<n_batch, n_prompt, n_tokens, touched, fed>>
    /\ UNCHANGED helper_vars

\* Mutant of LoopEos: the end-of-sequence exit jumps past the trim and the
\* normalize, straight to the print.
LoopEosSkipsPost ==
    /\ pc = "for"
    /\ loop_continues(i, n_predict)
    /\ \E id \in Tokens : id = llama_token_eos
    /\ halt' = "eos"
    /\ out_at_halt' = out
    /\ pc' = "print"
    /\ UNCHANGED <<stops, n_predict, i, n_cur, out, appended, calls, repaired,
                   printed, exit>>
    /\ UNCHANGED engine_vars
    /\ UNCHANGED <<n_batch, n_prompt, n_tokens, touched, fed>>
    /\ UNCHANGED helper_vars

\* The sampled token is the end-of-sequence token: break.
LoopEos ==
    /\ pc = "for"
    /\ loop_continues(i, n_predict)
    /\ \E id \in Tokens : id = llama_token_eos
    /\ halt' = "eos"
    /\ out_at_halt' = out
    /\ pc' = "trim"
    /\ UNCHANGED <<stops, n_predict, i, n_cur, out, appended, calls, repaired,
                   printed, exit>>
    /\ UNCHANGED engine_vars
    /\ UNCHANGED <<n_batch, n_prompt, n_tokens, touched, fed>>
    /\ UNCHANGED helper_vars

\* llama_token_to_piece gives nb <= 0: break.
LoopPieceFails ==
    /\ pc = "for"
    /\ loop_continues(i, n_predict)
    /\ \E id \in Tokens :
          /\ id # llama_token_eos
          /\ Len(llama_token_to_piece(id)) <= 0
    /\ halt' = "piece"
    /\ out_at_halt' = out
    /\ pc' = "trim"
    /\ UNCHANGED <<stops, n_predict, i, n_cur, out, appended, calls, repaired,
                   printed, exit>>
    /\ UNCHANGED engine_vars
    /\ UNCHANGED <<n_batch, n_prompt, n_tokens, touched, fed>>
    /\ UNCHANGED helper_vars

\* Mutant of LoopMatch: the break after the in-loop trim is missing.
LoopMatchNoBreak ==
    /\ pc = "for"
    /\ loop_continues(i, n_predict)
    /\ \E id \in Tokens :
          /\ id # llama_token_eos
          /\ Len(llama_token_to_piece(id)) > 0
          /\ ends_with_any(out \o llama_token_to_piece(id), stops)
          /\ out_at_halt' = out \o llama_token_to_piece(id)
          /\ fed' = Append(fed, <<id, n_cur>>)
          /\ out' = trim_at_stop_first_occurrence(
                        out \o llama_token_to_piece(id), stops)
    /\ appended' = appended + 1
    /\ calls' = Append(calls, "trim")
    /\ halt' = "match"
    /\ n_tokens' = 1
    /\ touched' = touched \cup {0}
    /\ n_cur' = n_cur + 1
    /\ i' = i + 1
    /\ UNCHANGED <<pc, stops, n_predict, repaired, printed, exit>>
    /\ UNCHANGED engine_vars
    /\ UNCHANGED <<n_batch, n_prompt>>
    /\ UNCHANGED helper_vars

\* Mutant of LoopMatch: the budget is tested before the stop literals, so
\* the fragment that uses up the budget ends the loop without a match test.
LoopMatchAfterBudget ==
    /\ pc = "for"
    /\ loop_continues(i, n_predict)
    /\ \E id \in Tokens :
          /\ id # llama_token_eos
          /\ Len(llama_token_to_piece(id)) > 0
          /\ ends_with_any(out \o llama_token_to_piece(id), stops)
          /\ out_at_halt' = out \o llama_token_to_piece(id)
          /\ IF loop_continues(i + 1, n_predict)
             THEN /\ out' = trim_at_stop_first_occurrence(
                                out \o llama_token_to_piece(id), stops)
                  /\ calls' = Append(calls, "trim")
                  /\ halt' = "match"
             ELSE /\ out' = out \o llama_token_to_piece(id)
                  /\ calls' = calls
                  /\ halt' = "budget"
    /\ appended' = appended + 1
    /\ pc' = "trim"
    /\ UNCHANGED <<stops, n_predict, i, n_cur, repaired, printed, exit>>
    /\ UNCHANGED engine_vars
    /\ UNCHANGED <<n_batch, n_prompt, n_tokens, touched, fed>>
    /\ UNCHANGED helper_vars

\* The piece is appended and out now ends with a stop literal: trim, break.
LoopMatch ==
    /\ pc = "for"
    /\ loop_continues(i, n_predict)
    /\ \E id \in Tokens :
          /\ id # llama_token_eos
          /\ Len(llama_token_to_piece(id)) > 0
          /\ ends_with_any(out \o llama_token_to_piece(id), stops)
          /\ out_at_halt' = out \o llama_token_to_piece(id)
          /\ out' = trim_at_stop_first_occurrence(
                        out \o llama_token_to_piece(id), stops)
    /\ appended' = appended + 1
    /\ calls' = Append(calls, "trim")
    /\ halt' = "match"
    /\ pc' = "trim"
    /\ UNCHANGED <<stops, n_predict, i, n_cur, repaired, printed, exit>>
    /\ UNCHANGED engine_vars
    /\ UNCHANGED <<n_batch, n_prompt, n_tokens, touched, fed>>
    /\ UNCHANGED helper_vars

\* The piece is appended, no stop literal ends out, the token is fed back at
\* position n_cur and llama_decode returns 0: next iteration.
LoopDecode ==
    /\ pc = "for"
    /\ loop_continues(i, n_predict)
    /\ \E id \in Tokens, rc \in DecodeResults :
          /\ id # llama_token_eos
          /\ Len(llama_token_to_piece(id)) > 0
          /\ ~ends_with_any(out \o llama_token_to_piece(id), stops)
          /\ rc = 0
          /\ out' = out \o llama_token_to_piece(id)
          /\ fed' = Append(fed, <<id, n_cur>>)
    /\ appended' = appended + 1
    /\ n_tokens' = 1
    /\ touched' = touched \cup {0}
    /\ n_cur' = n_cur + 1
    /\ i' = i + 1
    /\ UNCHANGED <<pc, stops, n_predict, halt, out_at_halt, calls, repaired,
                   printed, exit>>
    /\ UNCHANGED engine_vars
    /\ UNCHANGED <<n_batch, n_prompt>>
    /\ UNCHANGED helper_vars

\* The piece is appended, no stop literal ends out, and the token is put
\* into the batch at index 0, which lies outside a batch of no elements:
\* undefined behaviour.  In this outcome the process is killed there, at
\* batch.token[0] before n_cur++ or at batch.seq_id[0][0] after it;
\* llama_decode is not reached.  (LoopDecode and LoopDecodeFails are the
\* outcomes in which the process survives the stray accesses.)
LoopFeedBackCrashes ==
    /\ pc = "for"
    /\ loop_continues(i, n_predict)
    /\ ~in_batch(0)
    /\ \E id \in Tokens :
          /\ id # llama_token_eos
          /\ Len(llama_token_to_piece(id)) > 0
          /\ ~ends_with_any(out \o llama_token_to_piece(id), stops)
          /\ out' = out \o llama_token_to_piece(id)
    /\ appended' = appended + 1
    /\ n_tokens' = 0
    /\ touched' = touched \cup {0}
    /\ n_cur' \in {n_cur, n_cur + 1}
    /\ exit' = "crash"
    /\ pc' = "terminated"
    /\ UNCHANGED <<stops, n_predict, i, halt, out_at_halt, calls, repaired,
                   printed>>
    /\ UNCHANGED engine_vars
    /\ UNCHANGED <<n_batch, n_prompt, fed>>
    /\ UNCHANGED helper_vars

\* As LoopDecode, but llama_decode returns non-zero: break.
LoopDecodeFails ==
    /\ pc = "for"
    /\ loop_continues(i, n_predict)
    /\ \E id \in Tokens, rc \in DecodeResults :
          /\ id # llama_token_eos
          /\ Len(llama_token_to_piece(id)) > 0
          /\ ~ends_with_any(out \o llama_token_to_piece(id), stops)
          /\ rc # 0
          /\ out' = out \o llama_token_to_piece(id)
          /\ out_at_halt' = out \o llama_token_to_piece(id)
          /\ fed' = Append(fed, <<id, n_cur>>)
    /\ appended' = appended + 1
    /\ n_tokens' = 1
    /\ touched' = touched \cup {0}
    /\ n_cur' = n_cur + 1
    /\ halt' = "decode"
    /\ pc' = "trim"
    /\ UNCHANGED <<stops, n_predict, i, calls, repaired, printed, exit>>
    /\ UNCHANGED engine_vars
    /\ UNCHANGED <<n_batch, n_prompt>>
    /\ UNCHANGED helper_vars


\* Mutant of PostTrim: the call after the loop is missing.
PostTrimMissing ==
    /\ pc = "trim"
    /\ pc' = "normalize"
    /\ UNCHANGED <<stops, n_predict, i, n_cur, out, halt, appended, out_at_halt,
                   calls, repaired, printed, exit>>
    /\ UNCHANGED engine_vars
    /\ UNCHANGED <<n_batch, n_prompt, n_tokens, touched, fed>>
    /\ UNCHANGED helper_vars

\* trim_at_stop_first_occurrence(out, stops) after the loop.
PostTrim ==
    /\ pc = "trim"
    /\ out' = trim_at_stop_first_occurrence(out, stops)
    /\ calls' = Append(calls, "trim")
    /\ pc' = "normalize"
    /\ UNCHANGED <<stops, n_predict, i, n_cur, halt, appended, out_at_halt,
                   repaired, printed, exit>>
    /\ UNCHANGED engine_vars
    /\ UNCHANGED <<n_batch, n_prompt, n_tokens, touched, fed>>
    /\ UNCHANGED helper_vars

\* normalize_one_sentence(out) after the loop.
PostNormalize ==
    /\ pc = "normalize"
    /\ out' = normalize_one_sentence(out)
    /\ calls' = Append(calls, "normalize")
    /\ pc' = "anchor"
    /\ UNCHANGED <<stops, n_predict, i, n_cur, halt, appended, out_at_halt,
                   repaired, printed, exit>>
    /\ UNCHANGED engine_vars
    /\ UNCHANGED <<n_batch, n_prompt, n_tokens, touched, fed>>
    /\ UNCHANGED helper_vars

\* Mutant of anchor_fires: the p > 0 test is missing.
anchor_fires_at_any_offset(x) == find(x, key) # npos

\* The condition of the anchor block: p != npos && p > 0 for p = x.find(key).
anchor_fires(x) == find(x, key) # npos /\ find(x, key) > 0

\* Mutant of anchor_block: the part before the key is kept instead of the
\* part from the key on (substr(0, p) for substr(p)).
anchor_block_keeps_prefix(x) ==
    IF anchor_fires(x)
    THEN normalize_one_sentence(SubSeq(x, 1, find(x, key)))
    ELSE x

\* The anchor block on a text x: x = x.substr(p) and normalize_one_sentence(x)
\* when the condition holds, x untouched otherwise.
anchor_block(x) ==
    IF anchor_fires(x)
    THEN normalize_one_sentence(substr(x, find(x, key)))
    ELSE x

\* The anchor block, key found at an offset p > 0: out = out.substr(p) and
\* normalize_one_sentence(out) once more.
AnchorRepair ==
    /\ pc = "anchor"
    /\ anchor_fires(out)
    /\ out' = anchor_block(out)
    /\ calls' = Append(calls, "normalize")
    /\ repaired' = TRUE
    /\ pc' = "print"
    /\ UNCHANGED <<stops, n_predict, i, n_cur, halt, appended, out_at_halt,
                   printed, exit>>
    /\ UNCHANGED engine_vars
    /\ UNCHANGED <<n_batch, n_prompt, n_tokens, touched, fed>>
    /\ UNCHANGED helper_vars

\* The anchor block, key absent or at offset 0: out is left alone.
AnchorSkip ==
    /\ pc = "anchor"
    /\ ~anchor_fires(out)
    /\ pc' = "print"
    /\ UNCHANGED <<stops, n_predict, i, n_cur, out, halt, appended, out_at_halt,
                   calls, repaired, printed, exit>>
    /\ UNCHANGED engine_vars
    /\ UNCHANGED <<n_batch, n_prompt, n_tokens, touched, fed>>
    /\ UNCHANGED helper_vars

\* The literal "\n--- end ---\n" that follows out on std::cout.
end_mark == <<LF, 45, 45, 45, SP, 101, 110, 100, SP, 45, 45, 45, LF>>

\* std::cout << out << "\n--- end ---\n"
PrintOut ==
    /\ pc = "print"
    /\ printed' = printed \o <<out, end_mark>>
    /\ pc' = "cleanup"
    /\ UNCHANGED <<stops, n_predict, i, n_cur, out, halt, appended, out_at_halt,
                   calls, repaired, exit>>
    /\ UNCHANGED engine_vars
    /\ UNCHANGED <<n_batch, n_prompt, n_tokens, touched, fed>>
    /\ UNCHANGED helper_vars

\* The cleanup calls and return 0.
Cleanup ==
    /\ pc = "cleanup"
    /\ freed' = freed \o <<"batch", "smpl", "ctx", "model", "backend">>
    /\ exit' = "return 0"
    /\ pc' = "done"
    /\ UNCHANGED <<stops, n_predict, i, n_cur, out, halt, appended, out_at_halt,
                   calls, repaired, printed, acquired>>
    /\ UNCHANGED <<n_batch, n_prompt, n_tokens, touched, fed>>
    /\ UNCHANGED helper_vars

\* The cleanup calls after a stray access to the batch, and the process is
\* killed inside llama_batch_free(batch), the first of them.
CleanupCrashes ==
    /\ pc = "cleanup"
    /\ heap_damaged
    /\ exit' = "crash"
    /\ pc' = "terminated"
    /\ UNCHANGED <<stops, n_predict, i, n_cur, out, halt, appended, out_at_halt,
                   calls, repaired, printed>>
    /\ UNCHANGED engine_vars
    /\ UNCHANGED <<n_batch, n_prompt, n_tokens, touched, fed>>
    /\ UNCHANGED helper_vars

Next ==
    \/ BackendInit \/ LoadModelOk \/ LoadModelFails
    \/ NewContextOk \/ NewContextFails
    \/ ApplyTemplateOk \/ ApplyTemplateFails
    \/ TokenizeOk \/ TokenizeFails
    \/ BatchInit
    \/ PromptFillOk \/ PromptFillOverrunGoesOn \/ PromptFillOverrunCrashes
    \/ PromptDecodeOk \/ PromptDecodeFails \/ PromptDecodeFailsCrashes
    \/ SamplerInit
    \/ ReserveOk \/ ReserveThrows
    \/ LoopBudget \/ LoopEos \/ LoopPieceFails
    \/ LoopMatch \/ LoopDecode \/ LoopFeedBackCrashes \/ LoopDecodeFails
    \/ PostTrim \/ PostNormalize \/ AnchorRepair \/ AnchorSkip
    \/ PrintOut \/ Cleanup \/ CleanupCrashes

Spec == Init /\ [][Next]_vars


\* -------------------------------------- the normalizer with its anchor block

\* Longest text, in units, handed to the normalizer followed by the anchor block.
MaxRepairUnits == 3

\* The units those texts are made of: "a", " ", "\n", u8"。" and the key.
RepairUnits == {<<97>>, <<SP>>, <<LF>>, ZH_PERIOD, key}

\* The concatenation of a list of byte strings.
RECURSIVE Flatten(_)
Flatten(us) == IF us = <<>> THEN <<>> ELSE Head(us) \o Flatten(Tail(us))

\* u8"嗯，好的。", u8"LR(0)项目集：一种状态集合。" and u8"【定义】".
EX_FILLER ==
    <<229, 151, 175, 239, 188, 140, 229, 165, 189, 231, 154, 132, 227, 128, 130>>
EX_ANSWER ==
    <<76, 82, 40, 48, 41, 233, 161, 185, 231, 155, 174, 233, 155, 134, 239,
      188, 154, 228, 184, 128, 231, 167, 141, 231, 138, 182, 230, 128, 129,
      233, 155, 134, 229, 144, 136, 227, 128, 130>>
EX_TAG == <<227, 128, 144, 229, 174, 154, 228, 185, 137, 227, 128, 145>>

RepairInputs ==
    {Flatten(us) : us \in Lists(RepairUnits, MaxRepairUnits)}
    \cup {EX_FILLER \o EX_ANSWER, EX_TAG \o EX_ANSWER, EX_ANSWER}

\* normalize_one_sentence(s) followed by the anchor block, as at lines
\* 1508-1518 of main, on every text of the bounds.
InitRepair ==
    /\ pc = "call_normalize_then_anchor"
    /\ s_in \in RepairInputs
    /\ s = s_in /\ s_mid = <<>> /\ hit = FALSE /\ stops = <<>>
    /\ MainIdle

\* normalize_one_sentence(s); s_mid keeps the normalized text.
CallNormalizeFirst ==
    /\ pc = "call_normalize_then_anchor"
    /\ s' = normalize_one_sentence(s)
    /\ s_mid' = s'
    /\ pc' = "call_anchor_block"
    /\ UNCHANGED <<stops, s_in, hit>>
    /\ UNCHANGED main_vars

\* The anchor block on the normalized text; hit tells whether its body ran.
CallAnchorBlock ==
    /\ pc = "call_anchor_block"
    /\ hit' = anchor_fires(s)
    /\ s' = anchor_block(s)
    /\ pc' = "anchor_block_done"
    /\ UNCHANGED <<stops, s_in, s_mid>>
    /\ UNCHANGED main_vars

NextRepair == CallNormalizeFirst \/ CallAnchorBlock

SpecRepair == InitRepair /\ [][NextRepair]_vars


\* Largest number of units in a text tried on the sentence cut.
MaxCutUnits == 3

\* Texts tried on the sentence cut are built from these: 'a', a space, a
\* carriage return, a newline and the three terminators.
CutUnits == {<<97>>, <<SP>>, <<CR>>, <<LF>>, ZH_PERIOD, ZH_EXCLAM, ZH_QUESTION}

CutInputs ==
    {Flatten(us) : us \in Lists(CutUnits, MaxCutUnits)} \cup NormExamples

\* The first two statements of normalize_one_sentence, one at a time, on
\* every text of the bounds.
InitCut ==
    /\ pc = "call_remove_cr"
    /\ s_in \in CutInputs
    /\ s = s_in /\ s_mid = <<>> /\ hit = FALSE /\ stops = <<>>
    /\ MainIdle

\* s.erase(std::remove(..., '\r'), s.end()); s_mid keeps the result.
CallRemoveCr ==
    /\ pc = "call_remove_cr"
    /\ s' = remove_cr(s)
    /\ s_mid' = s'
    /\ pc' = "call_cut"
    /\ UNCHANGED <<stops, s_in, hit>>
    /\ UNCHANGED main_vars

\* cut = find_first_sentence_end_zh(s); if (cut != npos) s.resize(cut);
\* hit tells whether a cut position was found.
CallCut ==
    /\ pc = "call_cut"
    /\ hit' = (find_first_sentence_end_zh(s) # npos)
    /\ s' = cut_first_sentence(s)
    /\ pc' = "cut_done"
    /\ UNCHANGED <<stops, s_in, s_mid>>
    /\ UNCHANGED main_vars

NextCut == CallRemoveCr \/ CallCut

SpecCut == InitCut /\ [][NextCut]_vars


\* The orderings of a stop list.
Reorderings(lits) ==
    {[k \in 1..Len(lits) |-> lits[p[k]]] :
        p \in {q \in [1..Len(lits) -> 1..Len(lits)] :
                   \A a, b \in 1..Len(lits) : a # b => q[a] # q[b]}}

\* trim_at_stop_first_occurrence on the same text with the stop list in the
\* given order, then in another order of the same literals.
InitOrder ==
    /\ pc = "call_trim_in_order"
    /\ \E inp \in TrimInputs : s_in = inp[1] /\ stops = inp[2]
    /\ s = s_in /\ s_mid = <<>> /\ hit = FALSE
    /\ MainIdle

\* The call with the list as given; s_mid keeps its result.
CallTrimInOrder ==
    /\ pc = "call_trim_in_order"
    /\ s_mid' = trim_at_stop_first_occurrence(s, stops)
    /\ pc' = "call_trim_reordered"
    /\ UNCHANGED <<stops, s_in, s, hit>>
    /\ UNCHANGED main_vars

\* The call on the same text with the list reordered; hit tells whether the
\* order differs from the first call's.
CallTrimReordered ==
    /\ pc = "call_trim_reordered"
    /\ \E r \in Reorderings(stops) :
          /\ stops' = r
          /\ hit' = (r # stops)
          /\ s' = trim_at_stop_first_occurrence(s, r)
    /\ pc' = "trimmed_reordered"
    /\ UNCHANGED <<s_in, s_mid>>
    /\ UNCHANGED main_vars

NextOrder == CallTrimInOrder \/ CallTrimReordered

SpecOrder == InitOrder /\ [][NextOrder]_vars


\* ======================================================= helper properties

\* t occurs in x at (0-based) offset c.
OccursAt(x, t, c) ==
    /\ c + Len(t) <= Len(x)
    /\ \A j \in 1..Len(t) : x[c + j] = t[j]

\* x ends with t.
IsSuffix(t, x) == Len(t) <= Len(x) /\ OccursAt(x, t, Len(x) - Len(t))

\* p is a prefix of x.
IsPrefix(p, x) == Len(p) <= Len(x) /\ \A j \in 1..Len(p) : x[j] = p[j]

\* The offsets at which some non-empty literal of the stop list occurs in x.
StopOffsets(x, lits) ==
    {c \in 0..Len(x) :
        \E k \in 1..Len(lits) : lits[k] # <<>> /\ OccursAt(x, lits[k], c)}

\* The least element of a non-empty set of naturals.
Least(S) == CHOOSE m \in S : \A n \in S : m <= n

\* C1: the matcher returns true exactly when the text ends with some
\* non-empty literal of the stop list, compared byte for byte; an empty
\* text, an empty stop list and a list of empty literals never match.
C1_MatcherIffNonEmptySuffix ==
    pc = "matched" =>
        /\ hit <=> (\E k \in 1..Len(stops) :
                       stops[k] # <<>> /\ IsSuffix(stops[k], s_in))
        /\ (s_in = <<>>) => ~hit
        /\ (\A k \in 1..Len(stops) : stops[k] = <<>>) => ~hit

\* The matcher returned true on a text of two or more bytes with a list that
\* also holds an empty literal.
C1_Witness ==
    /\ pc = "matched" /\ hit
    /\ \E k \in 1..Len(stops) : stops[k] = <<>>
    /\ Len(s_in) > 1

\* C2: the trimmer returns the prefix of the text that ends at the smallest
\* offset at which any non-empty stop literal occurs anywhere in the text,
\* and the text itself when none occurs.
C2_TrimAtEarliestOffset ==
    pc = "trimmed" =>
        LET offs == StopOffsets(s_in, stops)
        IN  IF offs = {} THEN s = s_in
            ELSE s = SubSeq(s_in, 1, Least(offs))

\* The spec's example: {"X","YZ"} on "aaXbbYZcc" gives "aa".
C2_Witness ==
    /\ pc = "trimmed"
    /\ s_in = <<97, 97, 88, 98, 98, 89, 90, 99, 99>>
    /\ stops = << <<88>>, <<89, 90>> >>
    /\ s = <<97, 97>>

\* C3: trimming a trimmed text changes nothing.
C3_TrimIdempotent == pc = "trimmed_twice" => s = s_mid

\* The first call cut a text with two different literals in it to a
\* non-empty prefix, and the second call ran on that prefix.
C3_Witness ==
    /\ pc = "trimmed_twice"
    /\ s_mid # s_in /\ s_mid # <<>>
    /\ Len(stops) = 2 /\ stops[1] # stops[2]
    /\ find(s_in, stops[1]) # npos /\ find(s_in, stops[2]) # npos
    /\ find(s_in, stops[1]) > find(s_in, stops[2])

\* C4: the normalizer's result holds no carriage return, tab or newline, no
\* two spaces in a row, and neither starts nor ends with a space.
C4_NormalizedIsClean ==
    pc = "normalized" =>
        /\ \A k \in 1..Len(s) : s[k] \notin {CR, TAB, LF}
        /\ \A k \in 1..(Len(s) - 1) : ~(s[k] = SP /\ s[k + 1] = SP)
        /\ s # <<>> => (s[1] # SP /\ s[Len(s)] # SP)

\* " a\r\t a？a\n" was normalized to "a a？".
C4_Witness ==
    /\ pc = "normalized"
    /\ s_in = <<SP, 97, CR, TAB, SP, 97, 239, 188, 159, 97, LF>>
    /\ s = <<97, SP, 97, 239, 188, 159>>

\* ========================================================= main properties

\* The positions of main at which out is final (the spec's Normalized).
Normalized == pc \in {"print", "cleanup", "done"}

\* The loop exits the spec calls a clean stop: a stop-literal match or the
\* end-of-sequence token (StoppedByMatch), or the budget (StoppedByBudget).
CleanStop == halt \in {"match", "eos", "budget"}

\* The loop exits taken because the engine failed: no piece, or a failed decode.
EngineFailed == halt \in {"piece", "decode"}

\* The whitespace bytes the normalizer removes or substitutes.
WsBytes == {SP, TAB, LF, CR}

\* x without its whitespace bytes.
NoWs(x) == SelectSeq(x, LAMBDA c : c \notin WsBytes)

\* o is a prefix of b, except that a whitespace byte of b may be another
\* whitespace byte in o.
PrefixUpToWsSubstitution(o, b) ==
    /\ Len(o) <= Len(b)
    /\ \A k \in 1..Len(o) : o[k] = b[k] \/ (o[k] \in WsBytes /\ b[k] \in WsBytes)

\* C5 as stated: the final output is a prefix of the buffer as it was when
\* the loop halted, up to whitespace substitution.
C5_OutputIsPrefixOfHaltedBuffer ==
    Normalized => PrefixUpToWsSubstitution(out, out_at_halt)

\* C5 as amended: with the whitespace bytes deleted from both, the final
\* output is a prefix of the buffer at halt when the anchor repair did not
\* run, and a contiguous substring of it when it did.
C5_OutputIsSubstringModuloWhitespace ==
    Normalized =>
        LET o == NoWs(out)
            b == NoWs(out_at_halt)
        IN  /\ \E c \in 0..Len(b) : OccursAt(b, o, c)
            /\ ~repaired => IsPrefix(o, b)

\* A finished run whose buffer began with whitespace and held the anchor
\* after other text, so that both the leading trim and the repair changed it.
C5_Witness ==
    /\ pc = "done" /\ repaired
    /\ out # <<>>
    /\ out_at_halt[1] \in WsBytes
    /\ ~IsPrefix(out, out_at_halt)

\* C6: after an engine failure in the loop neither the trimmer nor the
\* normalizer runs, nothing is printed as the result, and main does not end
\* the way a clean stop does.
C6_DecodeFailureIsFatal ==
    EngineFailed => (calls = <<>> /\ printed = <<>> /\ exit # "return 0")

\* C7: with --n <= 0 the request is rejected before streaming: the loop is
\* never entered and main never reaches its normal completion.
C7_NonPositiveBudgetRejected ==
    n_predict <= 0 =>
        pc \notin {"for", "trim", "normalize", "anchor", "print", "cleanup", "done"}

\* C8: once the loop has been left, no fragment is appended, out never gets
\* longer, and the loop is not entered again.
C8_NoAppendAfterHalt ==
    [][halt # "none" =>
          /\ appended' = appended
          /\ Len(out') <= Len(out)
          /\ halt' = halt
          /\ pc' # "for"]_vars

\* A finished run that appended several fragments, halted on a stop match
\* and ended with an output shorter than the buffer at halt.
C8_Witness ==
    /\ pc = "done" /\ halt = "match"
    /\ appended >= 2
    /\ Len(out) < Len(out_at_halt) /\ out # <<>>

\* C9 as stated: on a clean stop the trimmer runs exactly once, then the
\* normalizer exactly once.
C9_TrimOnceNormalizeOnce ==
    (Normalized /\ CleanStop) => calls = <<"trim", "normalize">>

\* The stages of main after the loop, in the order of the code; the last is
\* the end of the process, by the return or by a kill inside the cleanup.
StageRank(p) ==
    CASE p = "trim" -> 1
      [] p = "normalize" -> 2
      [] p = "anchor" -> 3
      [] p = "print" -> 4
      [] p = "cleanup" -> 5
      [] p = "done" -> 6
      [] p = "terminated" -> 6
      [] OTHER -> 0

\* The calls made on a clean stop by the time main is at position p: a trim
\* inside the loop when a stop literal matched, the trim and the normalize
\* after the loop, and one more normalize when the anchor repair ran.
CleanStopCalls(p) ==
    (IF halt = "match" THEN <<"trim">> ELSE <<>>)
    \o (IF StageRank(p) >= 2 THEN <<"trim">> ELSE <<>>)
    \o (IF StageRank(p) >= 3 THEN <<"normalize">> ELSE <<>>)
    \o (IF StageRank(p) >= 4 /\ repaired THEN <<"normalize">> ELSE <<>>)

\* C9 as amended: on a clean stop the trimmer runs once after the loop, and
\* once before it inside the loop when the stop was a stop-literal match;
\* then the normalizer runs once, and once more when the anchor repair runs;
\* no trim follows a normalize; and every step then moves main to its next
\* stage, up to the final output and the return.
C9_TrimsThenNormalizes ==
    /\ [](CleanStop => calls = CleanStopCalls(pc))
    /\ [][CleanStop => StageRank(pc') = StageRank(pc) + 1]_vars

\* A finished run that halted on a stop match and ran the anchor repair:
\* two trims, then two normalizes.
C9_Witness ==
    /\ pc = "done" /\ halt = "match" /\ repaired
    /\ calls = <<"trim", "trim", "normalize", "normalize">>

\* C10: with --n = N > 0 at most N fragments are appended; the loop is left
\* by its condition only after exactly N appends, and then the trimmer and
\* the normalizer run; and the loop ends: every iteration that does not
\* leave it raises i by one, and i never passes N.  The loop is left by one
\* of its breaks or by its condition; the only other way out is the kill in
\* the feed-back when the batch has no element 0 (--batch 0, see C22).
C10_BudgetBound ==
    /\ [](n_predict > 0 =>
            /\ appended <= n_predict
            /\ i <= n_predict
            /\ halt = "budget" => (appended = n_predict /\ i = n_predict)
            /\ (halt = "budget" /\ Normalized) =>
                  (calls[1] = "trim" /\ calls[2] = "normalize"))
    /\ [][(pc = "for" /\ pc' = "for") => (i' = i + 1 /\ i' <= n_predict)]_vars
    /\ [][(pc = "for" /\ pc' # "for") =>
            (halt' # "none" \/ (exit' = "crash" /\ ~in_batch(0)))]_vars

\* The spec's scenario: --n 3, no match, no end of sequence, no failure.
C10_Witness ==
    /\ pc = "done" /\ halt = "budget"
    /\ n_predict = 3 /\ appended = 3
    /\ calls = <<"trim", "normalize">>

\* What the code after the loop makes of a buffer b when the loop was left
\* without an in-loop trim: the trim, the normalize and the anchor block.
PostProcessed(b) ==
    LET n == normalize_one_sentence(trim_at_stop_first_occurrence(b, BuiltinStops))
        p == find(n, key)
    IN  IF p # npos /\ p > 0 THEN normalize_one_sentence(substr(n, p)) ELSE n

\* C11: the end-of-sequence token ends the loop without an append for that
\* call; the trimmer and the normalizer then run on what was accumulated
\* (possibly nothing) and the result is printed, exactly as after a
\* stop-literal match; a run that gets through the cleanup returns 0 (after
\* an access outside the batch, see C22, it can be killed in the cleanup).
C11_EosIsCleanStop ==
    /\ [][(halt = "none" /\ halt' = "eos") =>
            (out' = out /\ appended' = appended /\ pc' = "trim")]_vars
    /\ []((halt \in {"eos", "match"} /\ pc \in {"done", "terminated"}) =>
            /\ \E k \in 1..Len(calls) : calls[k] = "trim"
            /\ \E k \in 1..Len(calls) : calls[k] = "normalize"
            /\ printed = <<PostProcessed(out_at_halt), end_mark>>
            /\ pc = "done" => exit = "return 0")

\* The spec's scenario: end of sequence on the engine's very first call; the
\* empty buffer went through trim and normalize and was printed.
C11_Witness ==
    /\ pc = "done" /\ halt = "eos"
    /\ appended = 0 /\ out_at_halt = <<>>
    /\ calls = <<"trim", "normalize">>
    /\ printed = << <<>>, end_mark >>

\* The offsets at which t occurs in x.
Offsets(x, t) == {c \in 0..Len(x) : OccursAt(x, t, c)}

\* C12 as stated: when the key occurs in the text handed to the normalizer,
\* first at an offset above 0, the result is the normalization of the text
\* from the key on; the spec's example yields the text from "LR(0)" on.
C12_AnchorRepairOnInput ==
    pc = "anchor_block_done" =>
        /\ (Offsets(s_in, key) # {} /\ Least(Offsets(s_in, key)) > 0) =>
              s = normalize_one_sentence(substr(s_in, Least(Offsets(s_in, key))))
        /\ (s_in = EX_FILLER \o EX_ANSWER) => s = EX_ANSWER

\* C12 as amended: the key is searched in the text that steps 1-5 left, so
\* in the first sentence only.  When it occurs there, first at an offset
\* above 0, everything before it is discarded (and steps 1-5 run again);
\* otherwise the normalized text stands.  The spec's example yields
\* u8"嗯，好的。", and u8"【定义】LR(0)项目集：一种状态集合。" yields the text
\* from "LR(0)" on.
C12_AnchorRepairOnFirstSentence ==
    pc = "anchor_block_done" =>
        /\ IF Offsets(s_mid, key) # {} /\ Least(Offsets(s_mid, key)) > 0
           THEN /\ hit
                /\ s = normalize_one_sentence(
                           substr(s_mid, Least(Offsets(s_mid, key))))
                /\ IsPrefix(key, s)
           ELSE ~hit /\ s = s_mid
        /\ (s_in = EX_FILLER \o EX_ANSWER) => s = EX_FILLER
        /\ (s_in = EX_TAG \o EX_ANSWER) => s = EX_ANSWER

\* u8"【定义】LR(0)项目集：一种状态集合。" was repaired to the text from the key on.
C12_Witness ==
    /\ pc = "anchor_block_done" /\ hit
    /\ s_in = EX_TAG \o EX_ANSWER
    /\ s = EX_ANSWER

\* C13: the anchor block leaves the text alone when the key is absent or
\* occurs first at offset 0, and it runs at most once: once it has run, the
\* text is final, however often the key occurs in it.
C13_AnchorRepairAtMostOnce ==
    [][/\ (pc = "anchor" /\ (Offsets(out, key) = {} \/ 0 \in Offsets(out, key))) =>
             (out' = out /\ repaired' = repaired /\ calls' = calls)
       /\ pc = "anchor" => pc' = "print"
       /\ repaired => (out' = out /\ calls' = calls /\ pc' # "anchor")]_vars

\* A finished run whose buffer held the key twice after other text: the
\* repair ran once and the second occurrence is still in the output.
C13_Witness ==
    /\ pc = "done" /\ repaired
    /\ Cardinality(Offsets(out_at_halt, key)) = 2
    /\ Cardinality(Offsets(out, key)) = 2


\* The offsets of x at which a terminator starts, and those holding a newline.
TerminatorOffsets(x) ==
    Offsets(x, ZH_PERIOD) \cup Offsets(x, ZH_EXCLAM) \cup Offsets(x, ZH_QUESTION)
NewlineOffsets(x) == Offsets(x, <<LF>>)

\* C14: after the carriage returns are removed, the text is cut at the
\* earliest terminator or newline: just past the terminator when that is a
\* terminator, at the newline when it is a newline; with neither, the step
\* leaves the text as it is. "你好。多余内容" becomes "你好。".
C14_SentenceCut ==
    /\ pc \in {"call_cut", "cut_done"} =>
          s_mid = SelectSeq(s_in, LAMBDA c : c # CR)
    /\ pc = "cut_done" =>
          LET B == TerminatorOffsets(s_mid) \cup NewlineOffsets(s_mid)
          IN  /\ hit <=> B # {}
              /\ B = {} => s = s_mid
              /\ B # {} =>
                   LET b == Least(B)
                   IN  /\ b \in TerminatorOffsets(s_mid) =>
                             s = SubSeq(s_mid, 1, b + 3)
                       /\ b \in NewlineOffsets(s_mid) =>
                             s = SubSeq(s_mid, 1, b)
    /\ (pc = "cut_done" /\ s_in = <<228, 189, 160, 229, 165, 189, 227, 128, 130,
            229, 164, 154, 228, 189, 153, 229, 134, 133, 229, 174, 185>>) =>
          s = <<228, 189, 160, 229, 165, 189, 227, 128, 130>>

\* A text with a carriage return in which a terminator comes before a
\* newline and another terminator: the cut keeps the first terminator.
C14_Witness ==
    /\ pc = "cut_done" /\ hit
    /\ Len(s_mid) < Len(s_in)
    /\ Cardinality(TerminatorOffsets(s_mid)) >= 1
    /\ NewlineOffsets(s_mid) # {}
    /\ Least(TerminatorOffsets(s_mid)) < Least(NewlineOffsets(s_mid))
    /\ s = SubSeq(s_mid, 1, Least(TerminatorOffsets(s_mid)) + 3)
    /\ Len(s) < Len(s_mid)


\* C15: the normalizer never makes a text longer.
C15_NormalizerNonExpansion ==
    pc = "normalized" => Len(s) <= Len(s_in)

\* A non-empty text without a sentence end that the normalizer leaves at its
\* full length: the bound is met with equality.
C15_Witness ==
    /\ pc = "normalized" /\ s_in # <<>>
    /\ Len(s) = Len(s_in)
    /\ find_first_sentence_end_zh(s_in) = npos


\* C16: the trimmer's result depends on the set of stop literals only: with
\* the list in any other order the same text is trimmed to the same string,
\* also when two literals start at the same offset.
C16_TrimOrderIndependent ==
    pc = "trimmed_reordered" => s = s_mid

\* Two different literals start at the earliest stop offset of the text, the
\* two calls had them in different orders, and the text was cut there.
C16_Witness ==
    /\ pc = "trimmed_reordered" /\ hit
    /\ StopOffsets(s_in, stops) # {}
    /\ LET c == Least(StopOffsets(s_in, stops))
       IN  /\ c > 0
           /\ \E a, b \in 1..Len(stops) :
                 /\ stops[a] # <<>> /\ stops[b] # <<>> /\ stops[a] # stops[b]
                 /\ OccursAt(s_in, stops[a], c) /\ OccursAt(s_in, stops[b], c)
           /\ s = SubSeq(s_in, 1, c)


\* C17: when the fragment that uses up the budget also makes the buffer end
\* with a stop literal, the loop is left through the stop-literal test, which
\* comes before the loop condition is evaluated again; what is printed is
\* the same function of the buffer as after a halt on the budget.
C17_StopMatchBeforeBudget ==
    /\ (halt # "none" /\ ends_with_any(out_at_halt, stops)) => halt = "match"
    /\ (halt = "match" /\ appended = n_predict) =>
           /\ i = n_predict - 1
           /\ pc \in {"trim", "normalize", "anchor", "print", "cleanup", "done",
                      "terminated"}
    /\ (pc \in {"done", "terminated"} /\ halt \in {"match", "budget"}) =>
           printed = <<PostProcessed(out_at_halt), end_mark>>

\* A finished run of two fragments with a budget of two, the second of which
\* completed a stop literal; something was left to print.
C17_Witness ==
    /\ pc = "done" /\ halt = "match"
    /\ n_predict = 2 /\ appended = n_predict
    /\ ends_with_any(out_at_halt, stops)
    /\ printed # <<>> /\ printed[1] # <<>>


\* The number of times r occurs in the log l.
Count(l, r) == Cardinality({k \in 1..Len(l) : l[k] = r})

\* C18: however main ends once llama_backend_init has been called, every
\* engine object that was created has been released exactly once, nothing
\* else has been released, and llama_backend_free was the last release.
C18_ResourcesReleasedOnExit ==
    (exit # "running" /\ acquired # <<>>) =>
        /\ \A k \in 1..Len(acquired) : Count(freed, acquired[k]) = 1
        /\ \A k \in 1..Len(freed) : Count(acquired, freed[k]) = 1
        /\ freed # <<>> /\ freed[Len(freed)] = "backend"

\* The same for the exits through a return statement, where it holds.
ReturnsReleaseEverything ==
    (exit \notin {"running", "terminate", "crash"}) =>
        /\ \A k \in 1..Len(acquired) : Count(freed, acquired[k]) = 1
        /\ \A k \in 1..Len(freed) : Count(acquired, freed[k]) = 1
        /\ freed # <<>> /\ freed[Len(freed)] = "backend"


\* C19: a trimmed text contains no occurrence of any non-empty stop literal,
\* so the matcher does not report a match on it.
C19_TrimLeavesNoStop ==
    pc \in {"trimmed", "trimmed_twice"} =>
        /\ StopOffsets(s, stops) = {}
        /\ ~ends_with_any(s, stops)

\* A text that ended with a stop literal and held stop literals at two
\* offsets or more was cut to a non-empty text.
C19_Witness ==
    /\ pc = "trimmed"
    /\ ends_with_any(s_in, stops)
    /\ Cardinality(StopOffsets(s_in, stops)) >= 2
    /\ s # <<>> /\ s # s_in


\* C20: with the built-in stop list, the output main prints (before the end
\* mark) holds no sentence terminator and no newline.
C20_NoTerminatorInOutput ==
    printed # <<>> =>
        /\ TerminatorOffsets(printed[1]) = {}
        /\ NewlineOffsets(printed[1]) = {}

\* The part of b before the first occurrence of a stop literal.
BeforeFirstStop(b) ==
    IF StopOffsets(b, stops) = {} THEN b
    ELSE SubSeq(b, 1, Least(StopOffsets(b, stops)))

\* C20 amended: the output printed before the end mark is out; it never
\* holds a newline, and it holds a terminator only
\* when the buffer the loop left holds, before its first stop literal, the
\* bytes of a terminator with carriage returns between them: the trimmer
\* does not see it, the normalizer's removal of carriage returns forms it,
\* and the sentence cut keeps it as the last bytes of the output.
C20_TerminatorOnlyFromCarriageReturns ==
    printed # <<>> =>
        /\ printed = <<out, end_mark>>
        /\ NewlineOffsets(printed[1]) = {}
        /\ TerminatorOffsets(printed[1]) # {} =>
              /\ TerminatorOffsets(BeforeFirstStop(out_at_halt)) = {}
              /\ TerminatorOffsets(
                     SelectSeq(BeforeFirstStop(out_at_halt),
                               LAMBDA c : c # CR)) # {}
              /\ TerminatorOffsets(printed[1]) = {Len(printed[1]) - 3}

\* A run of three fragments, a carriage return among them, that printed a
\* text ending with a terminator; and the budget ended the loop.
C20_Witness ==
    /\ pc = "done" /\ halt = "budget" /\ appended = 3
    /\ printed = <<ZH_PERIOD, end_mark>>
    /\ \E k \in 1..Len(out_at_halt) : out_at_halt[k] = CR


\* C21: a token is handed to llama_decode in the loop only after its piece
\* was appended and out did not end with a stop literal; the token that ends
\* the generation (end of sequence, a piece of no bytes, a piece completing
\* a stop literal) is not handed over; and the positions handed over are
\* the consecutive integers from the prompt's token count on, one for each
\* decode attempt.
C21_FeedBackOrdering ==
    /\ [][fed' # fed =>
            \E id \in Tokens :
                /\ fed' = Append(fed, <<id, n_cur>>)
                /\ id # llama_token_eos
                /\ Len(llama_token_to_piece(id)) > 0
                /\ out' = out \o llama_token_to_piece(id)
                /\ appended' = appended + 1
                /\ ~ends_with_any(out', stops)
                /\ n_cur' = n_cur + 1]_vars
    /\ [][(halt = "none" /\ halt' \in {"eos", "piece", "match", "budget"}) =>
            fed' = fed]_vars
    /\ [](/\ \A k \in 1..Len(fed) : fed[k][2] = n_prompt + k - 1
          /\ pc \in {"for", "trim", "normalize", "anchor", "print",
                     "cleanup"} => n_cur = n_prompt + Len(fed)
          /\ Len(fed) <= appended
          /\ halt # "none" =>
                Len(fed) = IF halt = "match" THEN appended - 1 ELSE appended)

\* A finished run of three fragments after a prompt of two tokens: the first
\* two tokens were fed back at positions 2 and 3, the third, which completed
\* a stop literal, was not.
C21_Witness ==
    /\ pc = "done" /\ halt = "match" /\ appended = 3
    /\ n_prompt = 2
    /\ Len(fed) = 2 /\ fed[1][2] = 2 /\ fed[2][2] = 3


\* C22: once the prompt has been put into the batch, every index accessed
\* was inside the batch and the prompt's token count is between 1 and
\* n_batch, whatever the token count and the --batch value.
C22_PromptFillWithinBatch ==
    touched # {} =>
        /\ \A k \in touched : 0 <= k /\ k < n_batch
        /\ 1 <= n_prompt /\ n_prompt <= n_batch

\* The same for the runs in which the prompt fits, where it holds; and the
\* accesses are outside the batch in every other run.
FillWithinBatchIffPromptFits ==
    touched # {} =>
        ((\A k \in touched : 0 <= k /\ k < n_batch)
            <=> (1 <= n_prompt /\ n_prompt <= n_batch))

====
